---- MODULE Spec2Model ----
(***************************************************************************)
(* Model of santa_tracker.py: the three output senders (UDP multicast,    *)
(* TCP, TLS), the per-tick controller run_once() and the loop of main().  *)
(*                                                                         *)
(* Four specifications are defined:                                        *)
(*   SinkSpec   - a client calls open()/send()/close() of one sender in    *)
(*                any order (the sender API on its own);                   *)
(*   Spec       - main() in loop mode: "with sender:" then run_once()      *)
(*                every interval, with KeyboardInterrupt handling;         *)
(*   OnceSpec   - main() with --once: a single run_once() over every route *)
(*                shape of the feed;                                       *)
(*   InterpSpec - santa_pos_from_route, presents_dynamic_live and their    *)
(*                shift helpers called on their own.                       *)
(***************************************************************************)
EXTENDS Integers, Sequences, FiniteSets, TLC

VARIABLES
    sender,      \* the sender object: mode, sock, ctx, p12file, p12_temp_files
    tempFiles,   \* temporary PEM files that exist on disk
    created,     \* number of temporary files ever created
    opened,      \* history: open() has been called on the sender
    lastCall,    \* record of the last sender API call (SinkSpec)
    pc,          \* position of main(): "start", "loop", "done"
    once,        \* args.once
    exit,        \* how main() ended: "none", "once", "interrupt", "error"
    VISITED_PUSH_DONE,   \* module global, line 26
    route,       \* the destination list the feed serves (feed order)
    minted,      \* number of uuid4() values minted for delete events
    everLive,    \* history: some tick has been handled as Live
    backfills,   \* history: number of ticks that ran the backfill branch
    rbUids,      \* history: the uids by which the events built so far name
                 \* the range-bearing line (uid of a line, link of a delete)
    deleteUids,  \* history: the event uids of the delete events built so far
    last,        \* record of the last run_once() call
    ramp,        \* history: how the presents of the subject marker moved
                 \* between successive Live ticks
    probe        \* record of the last call of an interpolator on its own
                 \* (InterpSpec)

vars == <<sender, tempFiles, created, opened, lastCall, pc, once, exit,
          VISITED_PUSH_DONE, route, minted, everLive, backfills, rbUids,
          deleteUids, last, ramp, probe>>

sinkVars == <<sender, tempFiles, created, opened, lastCall>>
ctlVars  == <<pc, once, exit, VISITED_PUSH_DONE, route, minted, everLive,
              backfills, rbUids, deleteUids, last, ramp, probe>>

None == "None"

(***************************************************************************)
(* Bounds                                                                  *)
(***************************************************************************)
MaxOpens == 2      \* open() calls explored in SinkSpec
MaxMinted == 2     \* uuid4() values minted before the ticks stop
MaxDests == 3      \* longest destination list served by the feed

(***************************************************************************)
(* Senders                                                                 *)
(***************************************************************************)
Modes == {"udp-mcast", "tcp", "tls"}

\* build_sender_from_args passes newline=True to TcpSender and TlsSender
newline == TRUE

\* A "world" is the sender object together with the temp files on disk.
World(s, f, c) == [s |-> s, files |-> f, created |-> c]

\* SenderBase / sender constructors
NewSender(mode, p12) ==
    [mode |-> mode, sock |-> FALSE, ctx |-> FALSE,
     p12file |-> (mode = "tls" /\ p12), p12_temp_files |-> {}]

\* close(): UdpMulticastSender.close, TcpSender.close, TlsSender.close
Close(w) ==
    IF w.s.mode = "tls"
    THEN [w EXCEPT !.s.sock = FALSE,
                   !.files = w.files \ w.s.p12_temp_files,
                   !.s.p12_temp_files = {}]
    ELSE [w EXCEPT !.s.sock = FALSE]

\* a _connect() that does not close the socket it holds before it tries
Connect_NoClose(w, ok) ==
    IF ~ok THEN [w |-> w, raised |-> TRUE]
    ELSE IF w.s.mode = "tls" /\ ~w.s.ctx THEN [w |-> w, raised |-> TRUE]
    ELSE [w |-> [w EXCEPT !.s.sock = TRUE], raised |-> FALSE]

\* TcpSender._connect / TlsSender._connect; ok = the peer accepts the
\* connection (and, for TLS, the handshake succeeds)
Connect(w, ok) ==
    LET c == Close(w) IN
    IF ~ok THEN [w |-> c, raised |-> TRUE]
    ELSE IF c.s.mode = "tls" /\ ~c.s.ctx THEN [w |-> c, raised |-> TRUE]
    ELSE [w |-> [c EXCEPT !.s.sock = TRUE], raised |-> FALSE]

\* Outcomes of unpacking a PKCS#12 bundle and loading it into the context
P12Outcomes == {"ok", "unpack_fail", "write_fail", "load_fail"}

\* TlsSender._materialize_p12_to_pem
MaterializeP12(w, how) ==
    LET k  == w.created + 1
        c  == w.created + 2
    IN  IF how = "unpack_fail"
        THEN [w |-> w, raised |-> TRUE]
        ELSE IF how = "write_fail"
        THEN [w |-> [w EXCEPT !.files = w.files \cup {k, c},
                              !.created = c],
              raised |-> TRUE]
        ELSE [w |-> [w EXCEPT !.files = w.files \cup {k, c},
                              !.created = c,
                              !.s.p12_temp_files = w.s.p12_temp_files \cup {k, c}],
              raised |-> FALSE]

\* TlsSender._build_context
BuildContext(w, how) ==
    IF w.s.p12file
    THEN LET m == MaterializeP12(w, how) IN
         IF m.raised THEN m
         ELSE IF how = "load_fail" THEN [w |-> m.w, raised |-> TRUE]
         ELSE [w |-> [m.w EXCEPT !.s.ctx = TRUE], raised |-> FALSE]
    ELSE IF how = "ok" THEN [w |-> [w EXCEPT !.s.ctx = TRUE], raised |-> FALSE]
    ELSE [w |-> w, raised |-> TRUE]

\* the "with sender:" exit, SenderBase.__exit__
SenderExit(w) == Close(w)

\* open(): UdpMulticastSender.open, TcpSender.open, TlsSender.open
\* how = outcome of building the TLS context, ok = bind/connect succeeds
Open(w, how, ok) ==
    IF w.s.mode = "udp-mcast"
    THEN [w |-> [w EXCEPT !.s.sock = TRUE], raised |-> ~ok]
    ELSE IF w.s.mode = "tcp" THEN Connect(w, ok)
    ELSE LET b == BuildContext(w, how) IN
         IF b.raised THEN b ELSE Connect(b.w, ok)

\* the bytes handed to sendall(): the text plus the delimiter
Frame(msg) == [text |-> msg, nl |-> newline]

\* a retry that writes the text without the delimiter
RetryPayload_Unframed(msg) == [text |-> msg, nl |-> FALSE]

\* the payload written by the retry in the except-branch of send()
RetryPayload(msg) == Frame(msg)

\* What the network does during one send(): c0 = the auto-connect succeeds,
\* w1 = the first write succeeds, c1 = the reconnect succeeds, w2 = the
\* retry write succeeds. A step that is never reached is written TRUE, so
\* each way a send() can go is listed once.
NetOutcomes ==
    { n \in [c0 : BOOLEAN, w1 : BOOLEAN, c1 : BOOLEAN, w2 : BOOLEAN] :
        /\ (~n.c0 => n.w1)
        /\ (n.w1 => n.c1)
        /\ (~n.c1 => n.w2) }

SendResult(w, raised, connects, writes, delivered) ==
    [w |-> w, raised |-> raised, connects |-> connects,
     writes |-> writes, delivered |-> delivered]

\* the except-branch of TcpSender.send / TlsSender.send
SendRetry(w, msg, n, connects) ==
    LET r == Connect(w, n.c1) IN
    IF r.raised
    THEN SendResult(r.w, TRUE, connects + 1, <<Frame(msg)>>, <<>>)
    ELSE IF n.w2
    THEN SendResult(r.w, FALSE, connects + 1,
                    <<Frame(msg), RetryPayload(msg)>>, <<RetryPayload(msg)>>)
    ELSE SendResult(r.w, TRUE, connects + 1,
                    <<Frame(msg), RetryPayload(msg)>>, <<>>)

\* TcpSender.send / TlsSender.send once a socket is held
SendConnected(w, msg, n, connects) ==
    IF n.w1
    THEN SendResult(w, FALSE, connects, <<Frame(msg)>>, <<Frame(msg)>>)
    ELSE SendRetry(w, msg, n, connects)

\* send(): UdpMulticastSender.send, TcpSender.send, TlsSender.send
Send(w, msg, n) ==
    IF w.s.mode = "udp-mcast"
    THEN IF ~w.s.sock
         THEN SendResult(w, TRUE, 0, <<>>, <<>>)
         ELSE IF n.w1
         THEN SendResult(w, FALSE, 0, <<[text |-> msg, nl |-> FALSE]>>,
                         <<[text |-> msg, nl |-> FALSE]>>)
         ELSE SendResult(w, TRUE, 0, <<[text |-> msg, nl |-> FALSE]>>, <<>>)
    ELSE IF ~w.s.sock
    THEN LET r == Connect(w, n.c0) IN
         IF r.raised THEN SendResult(r.w, TRUE, 1, <<>>, <<>>)
         ELSE SendConnected(r.w, msg, n, 1)
    ELSE SendConnected(w, msg, n, 0)

\* the record kept of the last call of the sender API
NoNet == [c0 |-> TRUE, w1 |-> TRUE, c1 |-> TRUE, w2 |-> TRUE]

\* (prevRaised = the call before it was a send() that raised)
NoCall == [op |-> "none", msg |-> None, net |-> NoNet, raised |-> FALSE,
           connects |-> 0, writes |-> <<>>, delivered |-> <<>>,
           hadSock |-> FALSE, wasOpened |-> FALSE, prevRaised |-> FALSE]

(***************************************************************************)
(* Feed data                                                               *)
(***************************************************************************)
Absent == -1          \* an optional number the JSON does not carry
NoLoc  == -1000       \* a destination without usable "location"
                      \* (latitudes are in tenths of a degree)

WEEK_MS == 604800000  \* 7 * 24 * 3600 * 1000
Far     == 700000000  \* a takeoff more than 7 days after the route's times
Dwell   == 500        \* time on the ground when "departure" is present

IdAt(i) == <<"a", "b", "c", "d", "e", "f">>[i]

\* arrival time of the k-th destination in arrival order
ArrivalAt(k) == IF k <= 2 THEN 1000 * k ELSE 40000 + 1000 * (k - 3)

\* the feed lists the destinations in arrival order, or the first two swapped
RankAt(i, swapped) == IF swapped /\ i = 1 THEN 2
                      ELSE IF swapped /\ i = 2 THEN 1 ELSE i

Waypoint(i, swapped, dwell, miss) ==
    LET k == RankAt(i, swapped) IN
    [id        |-> IdAt(i),
     arrival   |-> ArrivalAt(k),
     departure |-> IF dwell THEN ArrivalAt(k) + Dwell ELSE Absent,
     lat       |-> IF miss = i THEN NoLoc ELSE 400 + 10 * k,
     presents  |-> 1000 * (k - 1)]

Routes ==
    { [i \in 1..n |-> Waypoint(i, swapped, dwell, miss)] :
        <<n, swapped, dwell, miss>> \in
          { q \in (1..MaxDests) \X BOOLEAN \X BOOLEAN \X (0..MaxDests) :
              /\ q[4] <= q[1]
              /\ (q[2] => q[1] >= 2) } }

\* what the info JSON reports: every instant against every takeoff with a
\* positive duration, and one report each without takeoff and with a zero
\* duration
Nows      == {500, 1500, 2001, 20000, 50000, Far + 1001}
Takeoffs  == {1000, Far}
Infos     == [now : Nows, takeoff : Takeoffs, duration : {100}]
               \cup { [now |-> 1500, takeoff |-> Absent, duration |-> 100],
                      [now |-> 1500, takeoff |-> 1000, duration |-> 0],
                      [now |-> 1500, takeoff |-> 1000, duration |-> Absent] }

\* the routes of the loop-mode specification: the longest ones, every
\* destination with a location
LoopRoutes == { r \in Routes : Len(r) = MaxDests /\ \A i \in 1..Len(r) : r[i].lat # NoLoc }

\* no info JSON was obtained
NoInfo == [now |-> Absent, takeoff |-> Absent, duration |-> Absent]

FetchOutcomes == {"ok", "info_error", "no_route_url", "route_error", "empty"}

(***************************************************************************)
(* Utility helpers                                                         *)
(***************************************************************************)
Abs(x) == IF x < 0 THEN 0 - x ELSE x

api_is_live(info) ==
    IF info.now = Absent \/ info.takeoff = Absent \/ info.duration = Absent
    THEN FALSE
    ELSE IF info.duration <= 0 THEN FALSE
    ELSE info.now >= info.takeoff

\* int(info.get("now", 0))
api_now(info) == IF info.now = Absent THEN 0 ELSE info.now

\* int(info.get("takeoff", 0)) if info.get("takeoff") else None
api_takeoff(info) == IF info.takeoff = Absent \/ info.takeoff = 0
                     THEN Absent ELSE info.takeoff

format_countdown(info) ==
    IF info.now = Absent \/ info.takeoff = Absent
    THEN [label |-> "Waiting for takeoff", secs |-> Absent]
    ELSE [label |-> "Takeoff in",
          secs  |-> IF info.takeoff > info.now
                    THEN (info.takeoff - info.now) \div 1000 ELSE 0]

format_destination_name(raw) ==
    CASE raw = "a" -> "A" [] raw = "b" -> "B" [] raw = "c" -> "C"
      [] raw = "d" -> "D" [] raw = "e" -> "E" [] raw = "f" -> "F"
      [] raw = "landing" -> "Landing"
      [] OTHER -> "Unknown"

\* altitude_bump_m(t) for t = x / span strictly inside a leg, compared with
\* the 1.0 m threshold of run_once: MAX_ALT_M * sin(pi * t) <= 1.0 holds
\* exactly when t or 1 - t is at most asin(1 / 9144) / pi = 1 / 28726.7
\* (an integer x is at most span / 28726.7 exactly when it is at most the
\* integer part of 10 * span / 287267)
altitude_bump_m(x, span) ==
    IF x <= (span * 10) \div 287267 \/ span - x <= (span * 10) \div 287267
    THEN "le1" ELSE "gt1"

\* resolve_destination / dest_coords_from_obj: found = FALSE stands for the
\* None returned without coordinates
resolve_destination(d) ==
    [found |-> d.lat # NoLoc, name |-> format_destination_name(d.id),
     lat |-> d.lat]

landing == [id |-> "landing", arrival |-> 0, departure |-> Absent,
            lat |-> NoLoc, presents |-> 0]

(***************************************************************************)
(* Schedule interpolator                                                   *)
(***************************************************************************)
RECURSIVE Insert(_, _)
Insert(d, s) ==
    IF s = <<>> THEN <<d>>
    ELSE IF Head(s).arrival <= d.arrival THEN <<Head(s)>> \o Insert(d, Tail(s))
    ELSE <<d>> \o s

\* sorted(dests, key=arrival): a stable sort
RECURSIVE sorted_dests(_)
sorted_dests(ds) ==
    IF ds = <<>> THEN <<>>
    ELSE Insert(ds[Len(ds)], sorted_dests(SubSeq(ds, 1, Len(ds) - 1)))

get_arr_dep(d) ==
    [arr |-> d.arrival,
     dep |-> IF d.departure = Absent \/ d.departure = 0
             THEN d.arrival ELSE d.departure]

\* a schedule interpolator that never shifts the schedule
route_shift_never(dests, takeoff_ms) == 0

\* the shift computed inside santa_pos_from_route
route_shift(dests, takeoff_ms) ==
    IF takeoff_ms = Absent \/ takeoff_ms = 0 THEN 0
    ELSE LET first_dep == get_arr_dep(dests[1]).dep IN
         IF Abs(first_dep - takeoff_ms) > WEEK_MS
         THEN takeoff_ms - first_dep ELSE 0

shifted_arr_dep(d, shift) ==
    [arr |-> get_arr_dep(d).arr + shift, dep |-> get_arr_dep(d).dep + shift]

Position(err, lat1, lat2, num, den, hae, idx, next_idx) ==
    [err |-> err, lat1 |-> lat1, lat2 |-> lat2, num |-> num, den |-> den,
     hae |-> hae, idx |-> idx, next_idx |-> next_idx]

\* a position exactly at destination d (get_latlon raises without location)
AtDest(d, idx, next_idx) ==
    Position(d.lat = NoLoc, d.lat, d.lat, 0, 1, "0.0", idx, next_idx)

Min(a, b) == IF a < b THEN a ELSE b
Max(a, b) == IF a > b THEN a ELSE b

\* santa_pos_from_route for a non-empty destination list; indices are the
\* code's 0-based indices into the arrival-sorted list
santa_pos_from_route(route_data, now_ms, takeoff_ms) ==
    LET dests == sorted_dests(route_data)
        n     == Len(dests)
        shift == route_shift(dests, takeoff_ms)
        S(i)  == shifted_arr_dep(dests[i + 1], shift)
        Ground(i)  == S(i).arr <= now_ms /\ now_ms <= S(i).dep
        Transit(i) == i < n - 1 /\ S(i).dep < now_ms /\ now_ms < S(i + 1).arr
        Hits  == { i \in 0..(n - 1) : Ground(i) \/ Transit(i) }
    IN  IF now_ms < S(0).arr
        THEN AtDest(dests[1], 0, IF n > 1 THEN 1 ELSE 0)
        ELSE IF Hits = {}
        THEN AtDest(dests[n], n - 1, n - 1)
        ELSE LET i == CHOOSE h \in Hits : \A g \in Hits : h <= g IN
             IF Ground(i)
             THEN AtDest(dests[i + 1], i, Min(i + 1, n - 1))
             ELSE LET span == Max(1, S(i + 1).arr - S(i).dep)
                      x    == now_ms - S(i).dep
                  IN  Position(dests[i + 1].lat = NoLoc \/ dests[i + 2].lat = NoLoc,
                               dests[i + 1].lat, dests[i + 2].lat, x, span,
                               altitude_bump_m(x, span), i, i + 1)

NoPosition == Position(TRUE, NoLoc, NoLoc, 0, 1, "0.0", 0, 0)

\* the record kept of a call of an interpolator on its own: the arguments,
\* and what the call returned
NoProbe ==
    [fn |-> "none", idx |-> 0, next_idx |-> 0, takeoff |-> Absent,
     now |-> 0, now2 |-> 0, out |-> 0, out2 |-> 0, pos |-> NoPosition,
     sched |-> [shift |-> 0, times |-> << >>],
     prog  |-> [shift |-> 0, times |-> << >>]]

\* get_santa_location_and_route: fo = what the two HTTP requests return
get_santa_location_and_route(fo, info, dests) ==
    IF fo # "ok"
    THEN [err |-> TRUE, interp |-> FALSE, pos |-> NoPosition]
    ELSE LET p == santa_pos_from_route(dests, api_now(info), api_takeoff(info))
         IN  [err |-> p.err, interp |-> TRUE, pos |-> p]

(***************************************************************************)
(* Presents interpolation                                                  *)
(***************************************************************************)
compute_shift_ms(dests, takeoff_ms) ==
    IF dests = <<>> \/ takeoff_ms = Absent \/ takeoff_ms = 0 THEN 0
    ELSE LET first == dests[1]
             first_dep == IF first.departure = Absent THEN first.arrival
                          ELSE first.departure
         IN  IF Abs(first_dep - takeoff_ms) > WEEK_MS
             THEN takeoff_ms - first_dep ELSE 0

shifted_arr_dep_ms(d, shift_ms) ==
    LET arr == d.arrival + shift_ms
        dep == (IF d.departure = Absent \/ d.departure = 0
                THEN arr ELSE d.departure) + shift_ms
    IN  [arr |-> arr, dep |-> dep]

\* a ramp that runs from y down to x
round_lerp_downward(x, y, num, den) ==
    y - ((y - x) * num) \div den

\* int(round(x + (y - x) * num / den)) for 0 <= num <= den, den > 0;
\* round() rounds halves to the even neighbour
round_lerp(x, y, num, den) ==
    LET p == (y - x) * num
        q == p \div den
        r == p % den
    IN  IF 2 * r < den THEN x + q
        ELSE IF 2 * r > den THEN x + q + 1
        ELSE IF (x + q) % 2 = 0 THEN x + q ELSE x + q + 1

presents_dynamic_live(destinations, idx0, next_idx0, now_ms, takeoff_ms) ==
    LET dests == sorted_dests(destinations) IN
    IF dests = <<>> THEN 0
    ELSE LET idx      == Max(0, Min(idx0, Len(dests) - 1))
             next_idx == Max(0, Min(next_idx0, Len(dests) - 1))
         IN  IF next_idx = idx THEN dests[idx + 1].presents
             ELSE LET shift_ms == compute_shift_ms(dests, takeoff_ms)
                      cur == dests[idx + 1]
                      nxt == dests[next_idx + 1]
                      x   == cur.presents
                      y   == IF nxt.presents = 0 THEN x ELSE nxt.presents
                      t0  == shifted_arr_dep_ms(cur, shift_ms).dep
                      t1  == shifted_arr_dep_ms(nxt, shift_ms).arr + 60000
                  IN  IF t1 <= t0 THEN y
                      ELSE round_lerp(x, y,
                                      Max(0, Min(now_ms - t0, t1 - t0)),
                                      t1 - t0)

(***************************************************************************)
(* CoT builders                                                            *)
(***************************************************************************)
Uid(ns, n) == [ns |-> ns, n |-> n]

SANTA_UUID == Uid("SANTA", 0)
RB_UUID    == Uid("uuid4", 0)     \* the uuid4() minted at import, line 34
NoUid      == Uid("", 0)

NORTH_POLE_LAT == 846             \* latitudes are in tenths of a degree

SANTA_STALE_MS  == 300000         \* stale_minutes=5
GOTO_STALE_MS   == 86400000       \* stale_hours=24
RB_STALE_MS     == 60000          \* stale_minutes=1
DELETE_STALE_MS == 5000           \* stale_seconds=5

WallTimes == {123000}            \* what datetime.now() may return

Point(lat1, lat2, num, den, hae) ==
    [lat1 |-> lat1, lat2 |-> lat2, num |-> num, den |-> den, hae |-> hae]

NoText == [label |-> "", secs |-> Absent]

Event(kind, uid, link, clock, time, stale, point, presents, text) ==
    [kind |-> kind, uid |-> uid, link |-> link, clock |-> clock,
     time |-> time, stale |-> stale, point |-> point,
     presents |-> presents, text |-> text]

build_santa_cot(point, presents_delivered, next_display, uid, now_ms) ==
    Event("santa", uid, NoUid, "feed", now_ms, now_ms + SANTA_STALE_MS,
          point, presents_delivered, next_display)

build_goto_cot(dest_info, uid, now_ms) ==
    Event("goto", uid, NoUid, "feed", now_ms, now_ms + GOTO_STALE_MS,
          Point(dest_info.lat, dest_info.lat, 0, 1, "0.0"), Absent,
          [label |-> dest_info.name, secs |-> Absent])

\* a line event that takes the destination's uid as its own
build_rb_cot_range_uid(point, dest_info, parent_uid, range_uid, uid, now_ms) ==
    Event("rb", range_uid, parent_uid, "feed", now_ms, now_ms + RB_STALE_MS,
          point, Absent, [label |-> dest_info.name, secs |-> Absent])

build_rb_cot(point, dest_info, parent_uid, range_uid, uid, now_ms) ==
    Event("rb", uid, parent_uid, "feed", now_ms, now_ms + RB_STALE_MS,
          point, Absent, [label |-> dest_info.name, secs |-> Absent])

\* a delete event that takes the uid of its target as its own
build_delete_cot_target_uid(tgt_uid, k, wall) ==
    Event("delete", tgt_uid, tgt_uid, "wall", wall,
          wall + DELETE_STALE_MS, Point(0, 0, 0, 1, "0.0"), Absent, NoText)

\* build_delete_cot: k = the number of the uuid4() it mints, wall = the
\* wall-clock instant datetime.now() returns
build_delete_cot(tgt_uid, k, wall) ==
    Event("delete", Uid("uuid4", k), tgt_uid, "wall", wall,
          wall + DELETE_STALE_MS, Point(0, 0, 0, 1, "0.0"), Absent, NoText)

(***************************************************************************)
(* run_once                                                                *)
(***************************************************************************)
Item(msg, swallow) == [msg |-> msg, swallow |-> swallow]

\* a PRE-LIVE branch that forgets to clear the range-bearing line
PreLivePlan_NoDelete(info, k, wall) ==
    << Item(build_santa_cot(Point(NORTH_POLE_LAT, NORTH_POLE_LAT, 0, 1, "0.0"),
                            0, format_countdown(info), SANTA_UUID, api_now(info)),
            FALSE) >>

\* the PRE-LIVE branch: the sends it makes, in order
PreLivePlan(info, k, wall) ==
    << Item(build_santa_cot(Point(NORTH_POLE_LAT, NORTH_POLE_LAT, 0, 1, "0.0"),
                            0, format_countdown(info), SANTA_UUID, api_now(info)),
            FALSE),
       Item(build_delete_cot(RB_UUID, k, wall), TRUE) >>

\* a push that counts the current destination as visited while in flight
visited_upto_in_flight(pos) == pos.idx + 1

\* include_current / visited_upto of the one-time push
visited_upto(pos) == pos.idx + (IF pos.hae \in {"0.0", "le1"} THEN 1 ELSE 0)

\* sender.send(build_goto_cot(...)) for the i-th sorted destination, skipped
\* when it does not resolve
BackfillItem(d, now_ms) ==
    IF resolve_destination(d).found
    THEN << Item(build_goto_cot(resolve_destination(d), Uid(d.id, 0), now_ms),
                 FALSE) >>
    ELSE << >>

RECURSIVE BackfillUpTo(_, _, _)
BackfillUpTo(dests_sorted, upto, now_ms) ==
    IF upto = 0 THEN << >>
    ELSE BackfillUpTo(dests_sorted, upto - 1, now_ms)
           \o BackfillItem(dests_sorted[upto], now_ms)

\* the loop "for i in range(0, visited_upto)" of the one-time push
BackfillPlan(destinations, pos, now_ms) ==
    BackfillUpTo(sorted_dests(destinations), visited_upto(pos), now_ms)

\* next_dest_obj of run_once
next_dest_obj(destinations, pos) ==
    IF destinations # << >> /\ pos.idx < Len(destinations) - 1
    THEN destinations[pos.next_idx + 1]
    ELSE landing

\* the sends of a LIVE tick after the one-time push
LivePlan(destinations, pos, info) ==
    LET now_ms    == api_now(info)
        presents  == presents_dynamic_live(destinations, pos.idx, pos.next_idx,
                                           now_ms, api_takeoff(info))
        nxt       == next_dest_obj(destinations, pos)
        dest_info == resolve_destination(nxt)
        point     == Point(pos.lat1, pos.lat2, pos.num, pos.den, pos.hae)
        santa     == build_santa_cot(point, presents,
                                     [label |-> dest_info.name, secs |-> Absent],
                                     SANTA_UUID, now_ms)
    IN  << Item(santa, FALSE) >> \o
        (IF dest_info.found
         THEN << Item(build_goto_cot(dest_info, Uid(nxt.id, 0), now_ms), FALSE),
                 Item(build_rb_cot(point, dest_info, SANTA_UUID, Uid(nxt.id, 0),
                                   RB_UUID, now_ms), FALSE) >>
         ELSE << >>)

\* a tick that shows the placeholder although its fetch failed
FetchFailedPlan_Placeholder(info, k, wall) ==
    << Item(build_santa_cot(Point(NORTH_POLE_LAT, NORTH_POLE_LAT, 0, 1, "0.0"),
                            0, format_countdown(info), SANTA_UUID, api_now(info)),
            FALSE) >>

\* the sends of a tick whose get_santa_location_and_route() raised: the
\* exception leaves run_once() at line 951, before its first send
FetchFailedPlan(info, k, wall) == << >>

\* a one-time push that never records that it ran
PushDone_Never(flag, reached) == flag

\* "VISITED_PUSH_DONE = True" at the end of the one-time push, line 1010:
\* reached = the tick got past the loop of the push
PushDone(flag, reached) == flag \/ reached

\* A configuration of a tick under way: the world, the sends made so far
\* and whether an exception is propagating
Config(w, log, raised) == [w |-> w, log |-> log, raised |-> raised]

SendItem(c, item, n) ==
    LET r == Send(c.w, item.msg, n) IN
    Config(r.w, Append(c.log, [msg |-> item.msg, ok |-> ~r.raised]),
           r.raised /\ ~item.swallow)

StepAll(configs, item) ==
    { c \in configs : c.raised } \cup
    { SendItem(c, item, n) : c \in { d \in configs : ~d.raised },
                             n \in NetOutcomes }

\* every way the network can let the sends of a plan go, in order, up to the
\* first exception that propagates
RECURSIVE RunFrom(_, _)
RunFrom(configs, plan) ==
    IF plan = << >> THEN configs
    ELSE RunFrom(StepAll(configs, Head(plan)), Tail(plan))

RunPlan(w, plan) == RunFrom({Config(w, << >>, FALSE)}, plan)

\* the events a tick built, taken from the record of its sends
Built(log) == [j \in 1..Len(log) |-> log[j].msg]

\* the uids by which a sequence of events names the range-bearing line
RbUidsOf(events) ==
    { events[j].uid : j \in { i \in 1..Len(events) : events[i].kind = "rb" } }
      \cup
    { events[j].link : j \in { i \in 1..Len(events) : events[i].kind = "delete" } }

\* the event uids of the delete events in a sequence of events
DeleteUidsOf(events) ==
    { events[j].uid : j \in { i \in 1..Len(events) : events[i].kind = "delete" } }

\* the record kept of a run_once() call
\* phase = how the tick was handled, interp = the schedule interpolator
\* was called, backfill = the one-time push branch was entered, nBackfill =
\* the number of sends the push had to make, firstLive = no earlier tick was
\* handled as Live, now = the instant the info JSON reported
\* and takeoff = the takeoff it reported
TickRecord(phase, interp, pos, backfill, nBackfill, log, raised, firstLive, now,
           takeoff) ==
    [phase |-> phase, interp |-> interp, pos |-> pos, backfill |-> backfill,
     nBackfill |-> nBackfill, log |-> log, raised |-> raised,
     firstLive |-> firstLive, now |-> now, takeoff |-> takeoff]

NoTick == TickRecord("none", FALSE, NoPosition, FALSE, 0, << >>, FALSE, FALSE, 0,
                     Absent)

\* the presents_delivered of the subject marker among the sends of a tick
MarkerPresents(log) ==
    LET at == { i \in 1..Len(log) : log[i].msg.kind = "santa" }
    IN  IF at = {} THEN Absent ELSE log[CHOOSE i \in at : TRUE].msg.presents

NoRamp == [rose |-> FALSE, fell |-> FALSE]

\* the history of the presents after tick cur has followed tick prev: two
\* successive Live ticks on the same takeoff whose feed time did not go back
\* are compared by the presents of their subject markers (rose = the
\* presents rose between these two ticks while currentIndex advanced, fell =
\* the presents fell between some two such ticks of the run)
RampAfter(r, prev, cur) ==
    IF /\ prev.phase = "live" /\ cur.phase = "live"
       /\ prev.takeoff = cur.takeoff
       /\ prev.now <= cur.now
       /\ MarkerPresents(prev.log) # Absent
       /\ MarkerPresents(cur.log) # Absent
    THEN [rose |-> (/\ MarkerPresents(prev.log) < MarkerPresents(cur.log)
                    /\ prev.pos.idx < cur.pos.idx),
          fell |-> r.fell \/ MarkerPresents(cur.log) < MarkerPresents(prev.log)]
    ELSE [rose |-> FALSE, fell |-> r.fell]

\* the sends run_once() makes after a successful fetch, and the number of
\* them that belong to the one-time push
TickPlan(f, info, flag, k, wall) ==
    IF ~api_is_live(info)
    THEN [plan |-> PreLivePlan(info, k, wall), nBackfill |-> 0]
    ELSE LET b == IF flag THEN << >>
                  ELSE BackfillPlan(route, f.pos, api_now(info))
         IN  [plan |-> b \o LivePlan(route, f.pos, info), nBackfill |-> Len(b)]

(***************************************************************************)
(* Spec: main()                                                            *)
(***************************************************************************)
SetWorld(w) ==
    /\ sender' = w.s
    /\ tempFiles' = w.files
    /\ created' = w.created

\* a shutdown that lets the failure of the final send escape
ShutdownExit_Propagate(raised) == IF raised THEN "error" ELSE "interrupt"

\* what main() does with an exception raised by the shutdown send:
\* "except Exception: pass", lines 1266-1269
ShutdownExit(raised) == "interrupt"

\* what main() does with an exception raised by run_once(): nothing catches
\* it, so it leaves the "with" block and main()
TickExit(raised, runOnce) ==
    IF raised THEN "error" ELSE IF runOnce THEN "once" ELSE "none"

Init ==
    /\ \E mode \in Modes, p12 \in BOOLEAN :
          /\ (mode # "tls" => ~p12)
          /\ sender = NewSender(mode, p12)
    /\ tempFiles = {}
    /\ created = 0
    /\ opened = FALSE
    /\ lastCall = NoCall
    /\ pc = "start"
    /\ once = FALSE
    /\ exit = "none"
    /\ VISITED_PUSH_DONE = FALSE
    /\ route \in LoopRoutes
    /\ minted = 1
    /\ everLive = FALSE
    /\ backfills = 0
    /\ rbUids = {}
    /\ deleteUids = {}
    /\ last = NoTick
    /\ ramp = NoRamp
    /\ probe = NoProbe

\* "with sender:" -> SenderBase.__enter__ -> open(); an exception raised by
\* open() leaves main() without __exit__ being called
Enter ==
    /\ pc = "start"
    /\ \E how \in P12Outcomes, ok \in BOOLEAN :
          LET r == Open(World(sender, tempFiles, created), how, ok) IN
          /\ SetWorld(r.w)
          /\ lastCall' = [NoCall EXCEPT !.op = "open", !.raised = r.raised]
          /\ pc' = IF r.raised THEN "done" ELSE "loop"
          /\ exit' = IF r.raised THEN "error" ELSE "none"
    /\ opened' = TRUE
    /\ UNCHANGED <<once, VISITED_PUSH_DONE, route, minted, everLive,
                   backfills, rbUids, deleteUids, last, ramp, probe>>

\* one run_once() call that runs to its end or to an exception, and what the
\* loop of main() does next
Tick ==
    /\ pc = "loop"
    /\ minted <= MaxMinted
    /\ \E fo \in FetchOutcomes :
        \E info \in IF fo = "ok" THEN Infos ELSE {NoInfo}, wall \in WallTimes :
          LET f == get_santa_location_and_route(fo, info, route)
              w == World(sender, tempFiles, created)
          IN  IF f.err
              THEN \E c \in RunPlan(w, FetchFailedPlan(info, minted, wall)) :
                   /\ SetWorld(SenderExit(c.w))
                   /\ pc' = "done"
                   /\ exit' = TickExit(TRUE, once)
                   /\ last' = TickRecord("fetch_error", f.interp, f.pos,
                                         FALSE, 0, c.log, TRUE, FALSE,
                                         api_now(info), api_takeoff(info))
                   /\ UNCHANGED <<VISITED_PUSH_DONE, minted, everLive, backfills,
                                  rbUids, deleteUids, ramp>>
              ELSE LET live == api_is_live(info)
                       tp   == TickPlan(f, info, VISITED_PUSH_DONE, minted, wall)
                       push == live /\ ~VISITED_PUSH_DONE
                   IN  \E c \in RunPlan(w, tp.plan) :
                          /\ last' = TickRecord(IF live THEN "live" ELSE "prelive",
                                                f.interp, f.pos, push,
                                                tp.nBackfill, c.log, c.raised,
                                                live /\ ~everLive,
                                                api_now(info), api_takeoff(info))
                          /\ ramp' = RampAfter(ramp, last, last')
                          /\ VISITED_PUSH_DONE' =
                                PushDone(VISITED_PUSH_DONE,
                                         push /\ (~c.raised \/ Len(c.log) > tp.nBackfill))
                          /\ minted' = IF ~live /\ Len(c.log) = 2
                                       THEN minted + 1 ELSE minted
                          /\ everLive' = (everLive \/ live)
                          /\ backfills' = IF push THEN backfills + 1 ELSE backfills
                          /\ rbUids' = rbUids \cup RbUidsOf(Built(c.log))
                          /\ deleteUids' = deleteUids \cup DeleteUidsOf(Built(c.log))
                          /\ exit' = TickExit(c.raised, once)
                          /\ IF TickExit(c.raised, once) = "none"
                             THEN pc' = "loop" /\ SetWorld(c.w)
                             ELSE pc' = "done" /\ SetWorld(SenderExit(c.w))
    /\ UNCHANGED <<opened, lastCall, once, route, probe>>

\* the "except KeyboardInterrupt" branch of main() followed by the exit of
\* the "with" block
Shutdown(w, k, wall, n, built) ==
    LET m == build_delete_cot(RB_UUID, k, wall)
        r == Send(w, m, n)
    IN  /\ SetWorld(SenderExit(r.w))
        /\ rbUids' = rbUids \cup RbUidsOf(built \o <<m>>)
        /\ deleteUids' = deleteUids \cup DeleteUidsOf(built \o <<m>>)
        /\ lastCall' = [op |-> "shutdown_send", msg |-> m, net |-> n,
                        raised |-> r.raised, connects |-> r.connects,
                        writes |-> r.writes, delivered |-> r.delivered,
                        hadSock |-> w.s.sock, wasOpened |-> opened,
                        prevRaised |-> FALSE]
        /\ pc' = "done"
        /\ exit' = ShutdownExit(r.raised)
        /\ minted' = k + 1

\* KeyboardInterrupt during time.sleep()
InterruptSleep ==
    /\ pc = "loop"
    /\ ~once
    /\ last.phase # "none"
    /\ \E wall \in WallTimes, n \in NetOutcomes :
          Shutdown(World(sender, tempFiles, created), minted, wall, n, << >>)
    /\ UNCHANGED <<opened, once, VISITED_PUSH_DONE, route, everLive,
                   backfills, last, ramp, probe>>

\* KeyboardInterrupt during the fetch of a tick
InterruptFetch ==
    /\ pc = "loop"
    /\ minted <= MaxMinted
    /\ \E wall \in WallTimes, n \in NetOutcomes :
          Shutdown(World(sender, tempFiles, created), minted, wall, n, << >>)
    /\ UNCHANGED <<opened, once, VISITED_PUSH_DONE, route, everLive,
                   backfills, last, ramp, probe>>

\* where a KeyboardInterrupt raised inside a send of a tick can leave the
\* program: after k sends of the tick have completed, possibly inside
\* _connect() after the old socket was closed
Interrupted(w, flag, k0) ==
    UNION { LET f    == get_santa_location_and_route("ok", info, route)
                live == api_is_live(info)
                tp   == TickPlan(f, info, flag, k0, wall)
                push == live /\ ~flag
            IN  IF f.err THEN {}
                ELSE UNION { { [w    |-> IF mid /\ w.s.mode # "udp-mcast"
                                         THEN Close(c.w) ELSE c.w,
                                wall |-> wall,
                                live |-> live,
                                push |-> push,
                                flag |-> PushDone(flag, push /\ k >= tp.nBackfill),
                                built |-> [j \in 1..(k + 1) |-> tp.plan[j].msg],
                                k    |-> IF ~live /\ k = 1 THEN k0 + 1 ELSE k0]
                               : c \in { d \in RunPlan(w, SubSeq(tp.plan, 1, k)) :
                                         ~d.raised },
                                 mid \in BOOLEAN }
                             : k \in 0..(Len(tp.plan) - 1) }
            : info \in Infos, wall \in WallTimes }

\* KeyboardInterrupt inside a send of a tick
InterruptSend ==
    /\ pc = "loop"
    /\ minted <= MaxMinted
    /\ \E i \in Interrupted(World(sender, tempFiles, created),
                            VISITED_PUSH_DONE, minted) :
          /\ VISITED_PUSH_DONE' = i.flag
          /\ everLive' = (everLive \/ i.live)
          /\ backfills' = IF i.push THEN backfills + 1 ELSE backfills
          /\ \E n \in NetOutcomes : Shutdown(i.w, i.k, i.wall, n, i.built)
    /\ UNCHANGED <<opened, once, route, last, ramp, probe>>

Next == Enter \/ Tick \/ InterruptSleep \/ InterruptFetch \/ InterruptSend

Spec == Init /\ [][Next]_vars

(***************************************************************************)
(* OnceSpec: main() with --once, over every route                          *)
(***************************************************************************)
OnceInit ==
    /\ \E mode \in Modes, p12 \in BOOLEAN :
          /\ (mode # "tls" => ~p12)
          /\ sender = NewSender(mode, p12)
    /\ tempFiles = {}
    /\ created = 0
    /\ opened = FALSE
    /\ lastCall = NoCall
    /\ pc = "start"
    /\ once = TRUE
    /\ exit = "none"
    /\ VISITED_PUSH_DONE = FALSE
    /\ route \in Routes
    /\ minted = 1
    /\ everLive = FALSE
    /\ backfills = 0
    /\ rbUids = {}
    /\ deleteUids = {}
    /\ last = NoTick
    /\ ramp = NoRamp
    /\ probe = NoProbe

OnceNext == Enter \/ Tick \/ InterruptFetch \/ InterruptSend

OnceSpec == OnceInit /\ [][OnceNext]_vars

(***************************************************************************)
(* SinkSpec: the sender API driven by an arbitrary client                  *)
(***************************************************************************)
SinkMsgs == {"m1", "m2"}

CtlIdle ==
    /\ pc = "idle"
    /\ once = FALSE
    /\ exit = "none"
    /\ VISITED_PUSH_DONE = FALSE
    /\ route = <<>>
    /\ minted = 0
    /\ everLive = FALSE
    /\ backfills = 0
    /\ rbUids = {}
    /\ deleteUids = {}
    /\ last = NoTick
    /\ ramp = NoRamp
    /\ probe = NoProbe

SinkInit ==
    /\ \E mode \in Modes, p12 \in BOOLEAN :
          /\ (mode # "tls" => ~p12)
          /\ sender = NewSender(mode, p12)
    /\ tempFiles = {}
    /\ created = 0
    /\ opened = FALSE
    /\ lastCall = NoCall
    /\ CtlIdle

SinkOpen ==
    /\ created < 2 * MaxOpens
    /\ \E how \in P12Outcomes, ok \in BOOLEAN :
          LET r == Open(World(sender, tempFiles, created), how, ok) IN
          /\ sender' = r.w.s
          /\ tempFiles' = r.w.files
          /\ created' = r.w.created
          /\ lastCall' = [NoCall EXCEPT !.op = "open", !.raised = r.raised,
                                        !.hadSock = sender.sock,
                                        !.wasOpened = opened]
    /\ opened' = TRUE
    /\ UNCHANGED ctlVars

SinkSend ==
    /\ \E msg \in SinkMsgs, n \in NetOutcomes :
          LET r == Send(World(sender, tempFiles, created), msg, n) IN
          /\ sender' = r.w.s
          /\ tempFiles' = r.w.files
          /\ created' = r.w.created
          /\ lastCall' = [op |-> "send", msg |-> msg, net |-> n,
                          raised |-> r.raised, connects |-> r.connects,
                          writes |-> r.writes, delivered |-> r.delivered,
                          hadSock |-> sender.sock, wasOpened |-> opened,
                          prevRaised |-> (lastCall.op = "send" /\ lastCall.raised)]
    /\ UNCHANGED opened
    /\ UNCHANGED ctlVars

SinkClose ==
    /\ LET r == Close(World(sender, tempFiles, created)) IN
          /\ sender' = r.s
          /\ tempFiles' = r.files
          /\ created' = r.created
    /\ lastCall' = [NoCall EXCEPT !.op = "close", !.hadSock = sender.sock,
                                  !.wasOpened = opened]
    /\ UNCHANGED opened
    /\ UNCHANGED ctlVars

SinkNext == SinkOpen \/ SinkSend \/ SinkClose

SinkSpec == SinkInit /\ [][SinkNext]_vars

(***************************************************************************)
(* InterpSpec: the interpolators called on their own                       *)
(***************************************************************************)
\* route r with an explicit zero "departure" at its i-th destination
WithZeroDeparture(r, i) == [r EXCEPT ![i].departure = 0]

\* the schedules the interpolators are called with: every route, and every
\* route with a zero departure at the destination the feed lists first
ProbeRoutes == Routes \cup { WithZeroDeparture(r, 1) : r \in Routes }

\* the takeoff_ms argument: None, or what the info JSON reports
ProbeTakeoffs == {Absent} \cup Takeoffs

\* instants around the ramp of the leg idx -> next_idx, placed by the shifted
\* times of the schedule interpolator
ProgressNows(destinations, idx, next_idx, takeoff_ms) ==
    LET dests == sorted_dests(destinations)
        shift == route_shift(dests, takeoff_ms)
        t0    == shifted_arr_dep(dests[idx + 1], shift).dep
        t1    == shifted_arr_dep(dests[next_idx + 1], shift).arr + 60000
    IN  {t0 - 1, t0, (t0 + t1) \div 2, t1 - 1, t1, t1 + 1, t1 + Far}

InterpInit ==
    /\ sender = NewSender("udp-mcast", FALSE)
    /\ tempFiles = {}
    /\ created = 0
    /\ opened = FALSE
    /\ lastCall = NoCall
    /\ pc = "idle"
    /\ once = FALSE
    /\ exit = "none"
    /\ VISITED_PUSH_DONE = FALSE
    /\ route \in ProbeRoutes
    /\ minted = 0
    /\ everLive = FALSE
    /\ backfills = 0
    /\ rbUids = {}
    /\ deleteUids = {}
    /\ last = NoTick
    /\ ramp = NoRamp
    /\ probe = NoProbe

\* presents_dynamic_live called twice for one leg, at now and at a later now2
ProbeProgress ==
    /\ probe = NoProbe
    /\ \E idx \in 0..(Len(route) - 1), next_idx \in 0..(Len(route) - 1),
          takeoff_ms \in ProbeTakeoffs :
          /\ idx <= next_idx
          /\ \E now_ms \in ProgressNows(route, idx, next_idx, takeoff_ms),
                now2   \in ProgressNows(route, idx, next_idx, takeoff_ms) :
                /\ now_ms <= now2
                /\ probe' = [NoProbe EXCEPT
                                !.fn = "progress", !.idx = idx,
                                !.next_idx = next_idx, !.takeoff = takeoff_ms,
                                !.now = now_ms, !.now2 = now2,
                                !.out = presents_dynamic_live(route, idx, next_idx,
                                                              now_ms, takeoff_ms),
                                !.out2 = presents_dynamic_live(route, idx, next_idx,
                                                               now2, takeoff_ms)]
    /\ UNCHANGED sinkVars
    /\ UNCHANGED <<pc, once, exit, VISITED_PUSH_DONE, route, minted, everLive,
                   backfills, rbUids, deleteUids, last, ramp>>

\* instants around the first arrival of the schedule, unshifted and shifted
ScheduleNows ==
    Nows \cup {0, 999, 1000, Far - Dwell - 1, Far - Dwell, Far - 1, Far}

\* santa_pos_from_route called once
ProbeSchedule ==
    /\ probe = NoProbe
    /\ \E now_ms \in ScheduleNows, takeoff_ms \in ProbeTakeoffs :
          probe' = [NoProbe EXCEPT
                      !.fn = "schedule", !.takeoff = takeoff_ms, !.now = now_ms,
                      !.pos = santa_pos_from_route(route, now_ms, takeoff_ms)]
    /\ UNCHANGED sinkVars
    /\ UNCHANGED <<pc, once, exit, VISITED_PUSH_DONE, route, minted, everLive,
                   backfills, rbUids, deleteUids, last, ramp>>

\* the shift and the shifted (arrival, departure) of every waypoint, as the
\* schedule interpolator computes them (sched) and as the progress
\* interpolator computes them (prog) for one schedule and takeoff
ProbeShift ==
    /\ probe = NoProbe
    /\ \E takeoff_ms \in ProbeTakeoffs :
          LET dests    == sorted_dests(route)
              shift    == route_shift(dests, takeoff_ms)
              shift_ms == compute_shift_ms(dests, takeoff_ms)
          IN  probe' = [NoProbe EXCEPT
                          !.fn = "shift", !.takeoff = takeoff_ms,
                          !.sched = [shift |-> shift,
                                     times |-> [i \in 1..Len(dests) |->
                                                  shifted_arr_dep(dests[i], shift)]],
                          !.prog  = [shift |-> shift_ms,
                                     times |-> [i \in 1..Len(dests) |->
                                                  shifted_arr_dep_ms(dests[i], shift_ms)]]]
    /\ UNCHANGED sinkVars
    /\ UNCHANGED <<pc, once, exit, VISITED_PUSH_DONE, route, minted, everLive,
                   backfills, rbUids, deleteUids, last, ramp>>

InterpNext == ProbeProgress \/ ProbeSchedule \/ ProbeShift

InterpSpec == InterpInit /\ [][InterpNext]_vars

(***************************************************************************)
(* Properties                                                              *)
(***************************************************************************)
StreamSend == lastCall.op = "send" /\ sender.mode \in {"tcp", "tls"}

FirstWriteFailed == StreamSend /\ Len(lastCall.writes) >= 1 /\ ~lastCall.net.w1

\* C1: in a send() of the TCP or TLS sender whose first write fails, exactly
\* one reconnect is made (besides an auto-connect of a sender without
\* socket); when the reconnect succeeds the same framed payload is written
\* exactly once more; when that retry write fails too the error propagates,
\* nothing is delivered and no further reconnect is made.
C1_ReconnectOnceRetryOnce ==
    FirstWriteFailed =>
        /\ lastCall.connects = (IF lastCall.hadSock THEN 0 ELSE 1) + 1
        /\ lastCall.writes[1] = [text |-> lastCall.msg, nl |-> TRUE]
        /\ Len(lastCall.writes) <= 2
        /\ (sender.sock <=> Len(lastCall.writes) = 2)
        /\ (Len(lastCall.writes) = 2 => lastCall.writes[2] = lastCall.writes[1])
        /\ (Len(lastCall.writes) = 2 /\ lastCall.net.w2 =>
               ~lastCall.raised /\ lastCall.delivered = <<lastCall.writes[1]>>)
        /\ (Len(lastCall.writes) = 2 /\ ~lastCall.net.w2 =>
               lastCall.raised /\ lastCall.delivered = << >>)

\* a send() whose first write and whose retry write both failed
C1_Witness ==
    /\ FirstWriteFailed
    /\ Len(lastCall.writes) = 2
    /\ ~lastCall.net.w2
    /\ lastCall.raised
    /\ lastCall.connects = 1

\* C3: send() on a sender on which open() was never called connects by
\* itself and delivers the message (stated for a network that accepts every
\* connection and every write).
C3_SendBeforeOpenDelivers ==
    (lastCall.op = "send" /\ ~lastCall.wasOpened /\ lastCall.net = NoNet) =>
        (~lastCall.raised /\ Len(lastCall.delivered) = 1)

\* C2: in loop mode a tick that fails (fetch error, empty schedule or a send
\* error that survived the retry) does not end main() with an error.
C2_LoopSurvivesFailedTick ==
    (~once /\ last.raised) => exit # "error"

\* C4: once a tick has been handled as Live no later tick is handled as
\* Pre-live.
C4_NoLiveToPreLive ==
    last.phase = "prelive" => ~everLive

\* C5: a tick handled as Pre-live has not called the schedule interpolator.
C5_PreLiveNoInterpolator ==
    last.phase = "prelive" => ~last.interp

PlaceholderMarker(m) ==
    /\ m.kind = "santa"
    /\ m.uid = SANTA_UUID
    /\ m.point = Point(NORTH_POLE_LAT, NORTH_POLE_LAT, 0, 1, "0.0")
    /\ m.presents = 0
    /\ m.text.label \in {"Takeoff in", "Waiting for takeoff"}

RangeBearingDelete(m) == m.kind = "delete" /\ m.link = RB_UUID

\* C6 as stated: every Pre-live tick whose fetch succeeded sends exactly two
\* messages, the placeholder subject marker and the delete of the
\* range-bearing line.
C6_PreLiveAlwaysTwo ==
    last.phase = "prelive" =>
        /\ Len(last.log) = 2
        /\ PlaceholderMarker(last.log[1].msg)
        /\ RangeBearingDelete(last.log[2].msg)

\* C6 as amended: a Pre-live tick first sends the placeholder subject marker
\* (North Pole, altitude 0, 0 presents, countdown text); when that send
\* succeeds it sends the delete of the range-bearing line as its second and
\* last message, when it fails the tick ends there; no destination marker
\* and no range-bearing line is sent.
C6_PreLiveSends ==
    last.phase = "prelive" =>
        /\ Len(last.log) \in {1, 2}
        /\ PlaceholderMarker(last.log[1].msg)
        /\ (last.log[1].ok <=> Len(last.log) = 2)
        /\ (Len(last.log) = 2 => RangeBearingDelete(last.log[2].msg))
        /\ \A i \in 1..Len(last.log) : last.log[i].msg.kind \notin {"goto", "rb"}

\* a Pre-live tick that sent the marker and then the delete
C6_Witness ==
    /\ last.phase = "prelive"
    /\ Len(last.log) = 2
    /\ last.log[1].ok
    /\ last.log[2].ok

\* C7: the one-time push runs in at most one tick of a process run, that
\* tick is the first tick handled as Live, and the flag is never set while no
\* tick has been handled as Live.
C7_BackfillFirstLiveOnly ==
    /\ backfills <= 1
    /\ (last.backfill <=> last.firstLive)
    /\ (last.phase = "prelive" => ~last.backfill)
    /\ (VISITED_PUSH_DONE => everLive)

\* a Live tick after the push: the flag is set and the push was not run again
C7_Witness ==
    /\ last.phase = "live"
    /\ ~last.firstLive
    /\ ~last.backfill
    /\ VISITED_PUSH_DONE
    /\ backfills = 1
    /\ pc = "loop"

\* the uids of the markers the push of the last tick sent, in order
PushedUids ==
    [i \in 1..Min(last.nBackfill, Len(last.log)) |-> last.log[i].msg.uid]

PushCompleted == last.backfill /\ (~last.raised \/ Len(last.log) > last.nBackfill)

\* the destinations the push has to cover: the sorted indices below idx, and
\* idx itself when the altitude is at most 1 m
RECURSIVE PassedUpTo(_, _, _)
PassedUpTo(dests, upto, onlyResolved) ==
    IF upto = 0 THEN << >>
    ELSE PassedUpTo(dests, upto - 1, onlyResolved) \o
         (IF onlyResolved /\ dests[upto].lat = NoLoc
          THEN << >> ELSE << Uid(dests[upto].id, 0) >>)

Passed(onlyResolved) ==
    PassedUpTo(sorted_dests(route),
               last.pos.idx + (IF last.pos.hae = "gt1" THEN 0 ELSE 1),
               onlyResolved)

\* C8 as stated: a push that ran to its end sent a destination marker for
\* every destination below currentIndex, and for currentIndex when on the
\* ground, and for no other.
C8_BackfillEveryPassed ==
    PushCompleted => PushedUids = Passed(FALSE)

\* C8 as amended: the push sends, in arrival order, a destination marker for
\* each destination that resolves to coordinates among those below
\* currentIndex and currentIndex itself when the altitude is at most 1 m; a
\* destination without coordinates is skipped, and a failed send ends the
\* push after the markers sent so far.
C8_BackfillResolvedPassed ==
    last.backfill =>
        /\ last.nBackfill = Len(Passed(TRUE))
        /\ PushedUids = SubSeq(Passed(TRUE), 1, Len(PushedUids))
        /\ \A i \in 1..Len(PushedUids) : last.log[i].msg.kind = "goto"
        /\ (PushCompleted => PushedUids = Passed(TRUE))

\* a completed push past the first destination that sent a marker and
\* skipped a passed destination without coordinates
C8_Witness ==
    /\ PushCompleted
    /\ last.pos.idx >= 1
    /\ Len(PushedUids) >= 1
    /\ Passed(TRUE) # Passed(FALSE)

\* C9: after a KeyboardInterrupt main() has made one send, of a delete for
\* the range-bearing line, has ended without an error whether or not that
\* send failed, and the sender is closed.
C9_ShutdownClosesQuietly ==
    lastCall.op = "shutdown_send" =>
        /\ RangeBearingDelete(lastCall.msg)
        /\ pc = "done"
        /\ exit = "interrupt"
        /\ ~sender.sock

\* a shutdown whose final send failed
C9_Witness ==
    /\ lastCall.op = "shutdown_send"
    /\ lastCall.raised
    /\ pc = "done"

\* C10: when main() has ended no temporary key/cert file is left on disk.
C10_TempFilesDeleted ==
    pc = "done" => tempFiles = {}

\* the sends of the last tick that follow the sends of the one-time push
AfterPush == SubSeq(last.log, last.nBackfill + 1, Len(last.log))

\* the waypoint at nextIndex of the arrival-sorted schedule
NextWaypoint == sorted_dests(route)[last.pos.next_idx + 1]

\* C11: a Live tick that ran to its end sent, after the push, the subject
\* marker, and when the waypoint at nextIndex has coordinates then also a
\* destination marker and a range-bearing line, in that order, also when
\* currentIndex is the last waypoint. (Which waypoint the marker is for is
\* the matter of C20.)
C11_LiveTickSends ==
    (last.phase = "live" /\ ~last.raised) =>
        /\ Len(AfterPush) >= 1
        /\ AfterPush[1].msg.kind = "santa"
        /\ (NextWaypoint.lat # NoLoc =>
               /\ Len(AfterPush) = 3
               /\ AfterPush[2].msg.kind = "goto"
               /\ AfterPush[3].msg.kind = "rb")

\* C12: in one process run every range-bearing line event carries the same
\* uid, and every delete built in a Pre-live tick or at shutdown names that
\* same uid as its link target; the uid is the one minted at import and is
\* the same in every tick.
C12_SingleRangeBearingUid ==
    /\ rbUids \subseteq {RB_UUID}
    /\ \A i \in 1..Len(last.log) :
          /\ (last.log[i].msg.kind = "rb" => last.log[i].msg.uid = RB_UUID)
          /\ (last.log[i].msg.kind = "delete" => last.log[i].msg.link = RB_UUID)
    /\ (lastCall.op = "shutdown_send" => lastCall.msg.link = RB_UUID)

\* a run with a Pre-live delete, then a Live tick that sent the line, then
\* the shutdown delete
C12_Witness ==
    /\ lastCall.op = "shutdown_send"
    /\ last.phase = "live"
    /\ \E i \in 1..Len(last.log) : last.log[i].msg.kind = "rb" /\ last.log[i].ok
    /\ Cardinality(deleteUids) = 2
    /\ rbUids = {RB_UUID}

\* C13: a tick whose fetch failed (a request failed, the info JSON names no
\* route, the route is empty, or the schedule cannot be interpolated) has
\* sent no message.
C13_FetchFailureSendsNothing ==
    last.phase = "fetch_error" => (last.log = << >> /\ last.raised)

\* a tick whose fetch failed inside the schedule interpolator
C13_Witness ==
    /\ last.phase = "fetch_error"
    /\ last.interp
    /\ pc = "done"
    /\ ~sender.sock

\* the leg of the last call of the progress interpolator: X and Y are the
\* presents of the waypoints at idx and next_idx of the sorted schedule, t1
\* is the next waypoint's arrival, shifted as the schedule is, plus 60 s
ProbeLeg ==
    LET dests == sorted_dests(route)
        shift == route_shift(dests, probe.takeoff)
    IN  [X  |-> dests[probe.idx + 1].presents,
         Y  |-> dests[probe.next_idx + 1].presents,
         t1 |-> shifted_arr_dep(dests[probe.next_idx + 1], shift).arr + 60000]

\* C14: for a leg with X <= Y the progress interpolator returns a value in
\* [X, Y], returns no less at a later instant, and returns Y at every
\* instant from t1 on.
C14_ProgressBoundedMonotone ==
    (probe.fn = "progress" /\ ProbeLeg.X <= ProbeLeg.Y) =>
        /\ ProbeLeg.X <= probe.out /\ probe.out <= ProbeLeg.Y
        /\ ProbeLeg.X <= probe.out2 /\ probe.out2 <= ProbeLeg.Y
        /\ probe.out <= probe.out2
        /\ (probe.now >= ProbeLeg.t1 => probe.out = ProbeLeg.Y)
        /\ (probe.now2 >= ProbeLeg.t1 => probe.out2 = ProbeLeg.Y)

\* the waypoint of the route with the earliest arrival (the one listed first
\* by the feed among equal arrivals)
FirstWaypoint ==
    route[CHOOSE i \in 1..Len(route) :
            \A j \in 1..Len(route) :
               \/ route[i].arrival < route[j].arrival
               \/ (route[i].arrival = route[j].arrival /\ i <= j)]

\* the arrival of the first waypoint moved by the schedule shift: the start
\* instant minus the first departure when these are more than 7 days apart,
\* a departure that is absent or zero counting as the arrival
FirstShiftedArrival(start) ==
    LET w   == FirstWaypoint
        dep == IF w.departure \in {Absent, 0} THEN w.arrival ELSE w.departure
    IN  IF start # Absent /\ start # 0 /\ Abs(dep - start) > WEEK_MS
        THEN w.arrival + (start - dep) ELSE w.arrival

PreStart ==
    /\ probe.fn = "schedule"
    /\ probe.now < FirstShiftedArrival(probe.takeoff)
    /\ FirstWaypoint.lat # NoLoc

\* C15: called with an instant before the first shifted arrival, the
\* schedule interpolator returns the location of the first waypoint of the
\* arrival-sorted schedule, altitude 0, currentIndex 0, and nextIndex 1 when
\* there are several waypoints and 0 when there is one.
C15_PreStartAtFirstWaypoint ==
    PreStart =>
        /\ ~probe.pos.err
        /\ probe.pos.lat1 = FirstWaypoint.lat
        /\ probe.pos.lat2 = FirstWaypoint.lat
        /\ probe.pos.num = 0
        /\ probe.pos.hae = "0.0"
        /\ probe.pos.idx = 0
        /\ probe.pos.next_idx = (IF Len(route) > 1 THEN 1 ELSE 0)

\* a call before the first arrival of a shifted schedule that the feed does
\* not list in arrival order
C15_Witness ==
    /\ PreStart
    /\ probe.takeoff = Far
    /\ probe.now > 50000
    /\ Len(route) > 1
    /\ route[1].arrival > route[2].arrival
    /\ probe.pos.next_idx = 1

\* C19: for one schedule and start instant the two interpolators compute the
\* same shift and the same shifted arrival and departure of every waypoint,
\* and a waypoint whose departure is absent or zero has its shifted
\* departure equal to its shifted arrival in both.
C19_SameShiftedTimes ==
    probe.fn = "shift" =>
        /\ probe.prog.shift = probe.sched.shift
        /\ probe.prog.times = probe.sched.times
        /\ \A i \in 1..Len(probe.sched.times) :
              sorted_dests(route)[i].departure \in {Absent, 0} =>
                 /\ probe.sched.times[i].dep = probe.sched.times[i].arr
                 /\ probe.prog.times[i].dep = probe.prog.times[i].arr

\* the stale offsets: subject marker 5 min, destination marker 24 h,
\* range-bearing line 1 min, delete 5 s
StaleOffset(kind) ==
    CASE kind = "santa"  -> 5 * 60 * 1000
      [] kind = "goto"   -> 24 * 3600 * 1000
      [] kind = "rb"     -> 60 * 1000
      [] kind = "delete" -> 5 * 1000

\* C16: every event a tick sent, the delete included, was built from the
\* instant the feed reported: its time is that instant and its stale is the
\* time plus the offset of its kind.
C16_EventsCarryFeedInstant ==
    \A i \in 1..Len(last.log) :
       LET m == last.log[i].msg IN
       /\ m.clock = "feed"
       /\ m.time = last.now
       /\ m.stale = m.time + StaleOffset(m.kind)

\* the delete events of the last tick and of the shutdown
DeletesSeen ==
    { last.log[i].msg : i \in { j \in 1..Len(last.log) :
                                   last.log[j].msg.kind = "delete" } }
      \cup (IF lastCall.op = "shutdown_send" THEN {lastCall.msg} ELSE {})

\* C17: every delete event names its target (the uid it was built for) as
\* link uid and carries an event uid of its own: different from the target,
\* and different for each delete event built in the run (as many distinct
\* event uids as uuid4() calls made for deletes).
C17_DeleteUidFresh ==
    /\ \A m \in DeletesSeen : m.link = RB_UUID /\ m.uid # m.link
    /\ RB_UUID \notin deleteUids
    /\ Cardinality(deleteUids) = minted - 1

\* two Pre-live deletes and the shutdown delete, all three with their own uid
C17_Witness ==
    /\ lastCall.op = "shutdown_send"
    /\ last.phase = "prelive"
    /\ Len(last.log) = 2
    /\ Cardinality(deleteUids) = 3
    /\ lastCall.msg.uid \notin DeleteUidsOf(Built(last.log))

\* C18: a send of a tick that failed made the tick end with that failure
\* (only the shutdown send's failure is ignored).
C18_TickSendFailurePropagates ==
    \A i \in 1..Len(last.log) : ~last.log[i].ok => last.raised

\* C20: in a Live tick with a next waypoint, the label of the subject
\* marker, the destination marker and the range-bearing line are those of
\* the waypoint at nextIndex of the arrival-sorted schedule, whatever the
\* order in which the feed lists the waypoints.
C20_NextWaypointFromSortedSchedule ==
    (last.phase = "live" /\ last.pos.next_idx > last.pos.idx) =>
        /\ (Len(AfterPush) >= 1 =>
               AfterPush[1].msg.text.label = format_destination_name(NextWaypoint.id))
        /\ (Len(AfterPush) >= 2 =>
               /\ AfterPush[2].msg.uid = Uid(NextWaypoint.id, 0)
               /\ AfterPush[2].msg.point.lat1 = NextWaypoint.lat)
        /\ (Len(AfterPush) >= 3 =>
               AfterPush[3].msg.text.label = format_destination_name(NextWaypoint.id))

\* C21: between two successive Live ticks of a run, on the same schedule
\* and takeoff and with feed time that did not go back, the presents of the
\* subject marker never decreased, also when currentIndex advanced between
\* the two ticks.
C21_PresentsNeverDecrease == ~ramp.fell

\* two successive Live ticks between which currentIndex advanced and the
\* presents rose
C21_Witness ==
    /\ ramp.rose
    /\ ~ramp.fell
    /\ last.phase = "live"
    /\ pc = "loop"

\* a send() of the TCP or TLS sender that directly follows a send() that
\* raised, on a sender that can connect (a TLS sender has its context)
SendAfterFailure ==
    /\ StreamSend
    /\ lastCall.prevRaised
    /\ (sender.mode = "tls" => sender.ctx)

\* the peer is reachable during the last send(): connections are accepted
\* and writes on a new connection succeed (a write on a socket kept from
\* before the failure may still fail)
PeerReachable ==
    /\ lastCall.net.c0 /\ lastCall.net.c1 /\ lastCall.net.w2
    /\ (~lastCall.hadSock => lastCall.net.w1)

\* C22: a TCP or TLS sender whose send() raised stays usable. It never keeps
\* a socket next to the one it tries to make: a send() in which a connect
\* failed leaves it without socket, any other send() leaves it with one.
\* And the next send(), made without open() in between while the peer is
\* reachable, connects again where needed and delivers its message.
C22_SinkUsableAfterFailure ==
    /\ (StreamSend /\ Len(lastCall.writes) \in {0, 1} /\ lastCall.raised)
          => ~sender.sock
    /\ (SendAfterFailure /\ PeerReachable) =>
          /\ ~lastCall.raised
          /\ lastCall.delivered = << [text |-> lastCall.msg, nl |-> TRUE] >>
          /\ sender.sock
          /\ lastCall.connects =
                (IF lastCall.hadSock /\ lastCall.net.w1 THEN 0 ELSE 1)

\* a TLS sender that lost its socket in a failed send() and delivered the
\* next message over a new connection
C22_Witness ==
    /\ SendAfterFailure
    /\ PeerReachable
    /\ sender.mode = "tls"
    /\ lastCall.wasOpened
    /\ ~lastCall.hadSock
    /\ lastCall.connects = 1
    /\ Len(lastCall.delivered) = 1

====
